---------------------------- MODULE Spec2Model ----------------------------
(***************************************************************************)
(* MathUtils (src/mathUtils.js): a stateless numeric utility library.      *)
(*                                                                         *)
(* The library keeps no state between calls, so a behaviour of the model   *)
(* is one call: the caller picks the operation and its arguments from      *)
(* bounded sets, and the steps run it.  The arithmetic operations are one  *)
(* step.  The for-loops of factorial, isPrime and fibonacci are a test     *)
(* step and a body step; average is its checks and then one step for each  *)
(* element reduce visits; median is its checks with the sorted copy, and   *)
(* then the return of the middle.                                          *)
(*                                                                         *)
(* JavaScript values are records [k, n, d]:                                *)
(*   k = "num"   a finite number, the fraction n/d in lowest terms, d > 0  *)
(*   k = "nan" / "inf" / "ninf"   NaN, +Infinity, -Infinity                *)
(*   k = "str" / "undef"          values whose typeof is not 'number'      *)
(*   k = "bool"  true (n = 1) or false (n = 0)                             *)
(* Numbers are IEEE doubles in the program.  The model scales the format   *)
(* down: integers are exact up to 2^Prec (2^53 in the program), are        *)
(* rounded to nearest-even above it, and overflow to Infinity at           *)
(* 2^(Prec+ExpRange).  Fractions with small terms are kept exact, and      *)
(* +0 and -0 are one value (they are === in the program).                  *)
(***************************************************************************)
EXTENDS Integers, Sequences, FiniteSets, TLC

VARIABLES pc, op, args, numbers, i, result, fibA, fibB, acc, sorted, outcome

vars == <<pc, op, args, numbers, i, result, fibA, fibB, acc, sorted, outcome>>

---------------------------------------------------------------------------
(* Bounds of the model *)

Prec == 10          \* significand width of the scaled-down float format
ExpRange == 3       \* integers of magnitude >= 2^(Prec+ExpRange) overflow
MaxAbs == 3         \* integer arguments of the scalar operations: -MaxAbs..MaxAbs
MaxFactN == 5       \* factorial is called on -MaxAbs..MaxFactN (and big values)
MaxFibN == 15       \* fibonacci is called on -MaxAbs..MaxFibN (and big values)
MaxPrimeN == 1000   \* isPrime is called on -MaxAbs..MaxPrimeN (and big values)
MaxLen == 4         \* arrays have at most MaxLen elements

---------------------------------------------------------------------------
(* Values *)

Abs(m) == IF m < 0 THEN -m ELSE m

RECURSIVE Gcd(_, _)
Gcd(m, n) == IF n = 0 THEN m ELSE Gcd(n, m % n)

RECURSIVE Pow2(_)
Pow2(k) == IF k = 0 THEN 1 ELSE 2 * Pow2(k - 1)

MaxSafe == Pow2(Prec)
Overflow == Pow2(Prec + ExpRange)

Num(m) == [k |-> "num", n |-> m, d |-> 1]
NaN == [k |-> "nan", n |-> 0, d |-> 1]
PosInf == [k |-> "inf", n |-> 0, d |-> 1]
NegInf == [k |-> "ninf", n |-> 0, d |-> 1]
Str == [k |-> "str", n |-> 0, d |-> 1]
Undef == [k |-> "undef", n |-> 0, d |-> 1]
Bool(b) == [k |-> "bool", n |-> IF b THEN 1 ELSE 0, d |-> 1]

\* typeof value === 'number'
IsNumberType(v) == v.k \in {"num", "nan", "inf", "ninf"}

\* the sign of a number that is not NaN: -1, 0 or 1
Sign(v) ==
    CASE v.k = "inf" -> 1
      [] v.k = "ninf" -> -1
      [] OTHER -> IF v.n < 0 THEN -1 ELSE IF v.n > 0 THEN 1 ELSE 0

Signed(s) == IF s < 0 THEN NegInf ELSE PosInf

\* spacing of the representable integers around m >= MaxSafe
RECURSIVE Spacing(_, _)
Spacing(m, s) == IF m < MaxSafe * s THEN s ELSE Spacing(m, 2 * s)

\* round-to-nearest, ties-to-even, of the integer m >= 0
RoundInt(m) ==
    IF m <= MaxSafe THEN m
    ELSE LET s == Spacing(m, 1)
             q == m \div s
             r == m % s
         IN  IF 2 * r < s THEN q * s
             ELSE IF 2 * r > s THEN (q + 1) * s
             ELSE IF q % 2 = 0 THEN q * s ELSE (q + 1) * s

\* the double nearest to the fraction m/e (e # 0)
Frac(m, e) ==
    LET g == Gcd(Abs(m), Abs(e))
        sn == IF e < 0 THEN -(m \div g) ELSE m \div g
        sd == Abs(e) \div g
    IN  IF sd # 1 THEN [k |-> "num", n |-> sn, d |-> sd]
        ELSE LET r == RoundInt(Abs(sn))
             IN  IF r >= Overflow THEN Signed(sn)
                 ELSE Num(IF sn < 0 THEN -r ELSE r)

---------------------------------------------------------------------------
(* Floating-point arithmetic on numbers (operands are of type number) *)

FNeg(v) ==
    CASE v.k = "nan" -> NaN
      [] v.k = "inf" -> NegInf
      [] v.k = "ninf" -> PosInf
      [] OTHER -> [v EXCEPT !.n = -v.n]

\* a + b
FAdd(a, b) ==
    IF a.k = "nan" \/ b.k = "nan" THEN NaN
    ELSE IF a.k = "num" /\ b.k = "num"
         THEN Frac(a.n * b.d + b.n * a.d, a.d * b.d)
    ELSE IF a.k = "num" THEN b
    ELSE IF b.k = "num" THEN a
    ELSE IF a.k = b.k THEN a ELSE NaN

\* a - b
FSub(a, b) == FAdd(a, FNeg(b))

\* a * b
FMul(a, b) ==
    IF a.k = "nan" \/ b.k = "nan" THEN NaN
    ELSE IF a.k = "num" /\ b.k = "num" THEN Frac(a.n * b.n, a.d * b.d)
    ELSE IF Sign(a) * Sign(b) = 0 THEN NaN
    ELSE Signed(Sign(a) * Sign(b))

\* a / b
FDiv(a, b) ==
    IF a.k = "nan" \/ b.k = "nan" THEN NaN
    ELSE IF a.k = "num" /\ b.k = "num"
         THEN IF b.n # 0 THEN Frac(a.n * b.d, a.d * b.n)
              ELSE IF a.n = 0 THEN NaN ELSE Signed(a.n)
    ELSE IF a.k = "num" THEN Num(0)
    ELSE IF b.k = "num" THEN Signed(Sign(a) * (IF b.n < 0 THEN -1 ELSE 1))
    ELSE NaN

\* a < b
FLess(a, b) ==
    IF a.k = "nan" \/ b.k = "nan" THEN FALSE
    ELSE IF a.k = "num" /\ b.k = "num" THEN a.n * b.d < b.n * a.d
    ELSE IF a.k = b.k THEN FALSE
    ELSE a.k = "ninf" \/ b.k = "inf"

\* x ^ e for integers x and e >= 0
RECURSIVE IntPow(_, _)
IntPow(x, e) == IF e = 0 THEN 1 ELSE x * IntPow(x, e - 1)

\* Math.pow(base, exponent); the exponent is an integer or infinite
FPow(base, exponent) ==
    IF exponent.k = "nan" THEN NaN
    ELSE IF exponent.k = "num" /\ exponent.n = 0 THEN Num(1)
    ELSE IF base.k = "nan" THEN NaN
    ELSE IF exponent.k \in {"inf", "ninf"}
         THEN LET big == base.k # "num" \/ Abs(base.n) > base.d
                  one == base.k = "num" /\ Abs(base.n) = base.d
              IN  IF one THEN NaN
                  ELSE IF big = (exponent.k = "inf") THEN PosInf ELSE Num(0)
    ELSE IF base.k = "num"
         THEN IF exponent.n > 0
              THEN Frac(IntPow(base.n, exponent.n), IntPow(base.d, exponent.n))
              ELSE IF base.n = 0 THEN PosInf
              ELSE Frac(IntPow(base.d, -exponent.n), IntPow(base.n, -exponent.n))
    ELSE IF exponent.n < 0 THEN Num(0)
    ELSE IF base.k = "ninf" /\ exponent.n % 2 = 1 THEN NegInf ELSE PosInf

\* the integer square root of m >= 0
RECURSIVE ISqrt(_, _)
ISqrt(m, r) == IF (r + 1) * (r + 1) > m THEN r ELSE ISqrt(m, r + 1)

\* Math.sqrt(number) of a number >= 0 whose root is rational
FSqrt(number) ==
    IF number.k # "num" THEN number
    ELSE Frac(ISqrt(number.n, 0), ISqrt(number.d, 0))

---------------------------------------------------------------------------
(* Outcomes of a call and of a validation *)

None == [st |-> "none", val |-> Undef, err |-> ""]
Return(v) == [st |-> "ret", val |-> v, err |-> ""]
\* err names the message thrown; val is the value the message quotes
Throw(e, v) == [st |-> "err", val |-> v, err |-> e]

---------------------------------------------------------------------------
(* Validation functions *)

\* throws 'Invalid number: ${value}' unless value is a number and not NaN
validateNumber(value) ==
    IF ~IsNumberType(value) \/ value.k = "nan"
    THEN Throw("InvalidNumber", value)
    ELSE None

\* values.forEach(validateNumber): the first throw ends the iteration
RECURSIVE validateNumbers(_)
validateNumbers(values) ==
    IF values = <<>> THEN None
    ELSE LET r == validateNumber(Head(values))
         IN  IF r.st = "err" THEN r ELSE validateNumbers(Tail(values))

\* Number.isInteger(value)
IsInteger(value) == value.k = "num" /\ value.d = 1

\* throws 'Expected integer, got: ${value}' after validateNumber passed
validateInteger(value) ==
    LET r == validateNumber(value)
    IN  IF r.st = "err" THEN r
        ELSE IF ~IsInteger(value) THEN Throw("NotAnInteger", value)
        ELSE None

---------------------------------------------------------------------------
(* Operations without a loop, as functions of their arguments *)

add(a, b) ==
    LET v == validateNumbers(<<a, b>>)
    IN  IF v.st = "err" THEN v ELSE Return(FAdd(a, b))

subtract(a, b) ==
    LET v == validateNumbers(<<a, b>>)
    IN  IF v.st = "err" THEN v ELSE Return(FSub(a, b))

multiply(a, b) ==
    LET v == validateNumbers(<<a, b>>)
    IN  IF v.st = "err" THEN v ELSE Return(FMul(a, b))

DivideZeroCheckFirst(a, b) ==
    IF b = Num(0) THEN Throw("DivisionByZero", Undef)
    ELSE LET v == validateNumbers(<<a, b>>)
         IN  IF v.st = "err" THEN v ELSE Return(FDiv(a, b))

DivideNoZeroCheck(a, b) ==
    LET v == validateNumbers(<<a, b>>)
    IN  IF v.st = "err" THEN v ELSE Return(FDiv(a, b))

divide(a, b) ==
    LET v == validateNumbers(<<a, b>>)
    IN  IF v.st = "err" THEN v
        ELSE IF b = Num(0) THEN Throw("DivisionByZero", Undef)
        ELSE Return(FDiv(a, b))

power(base, exponent) ==
    LET v == validateNumbers(<<base, exponent>>)
    IN  IF v.st = "err" THEN v ELSE Return(FPow(base, exponent))

squareRoot(number) ==
    LET v == validateNumber(number)
    IN  IF v.st = "err" THEN v
        ELSE IF FLess(number, Num(0)) THEN Throw("NegativeRadicand", Undef)
        ELSE Return(FSqrt(number))

\* Array.isArray(numbers)
IsArray(nums) == nums.kind = "array"

\* the comparator (a, b) => a - b says a sorts before b when it is negative
\* (c is the difference, computed once)
SortsBefore(a, b) == \E c \in {FSub(a, b)} : FLess(c, Num(0))

\* the place (1-based) a stable sort by the comparator gives items[j]:
\* after the elements that sort before it and the earlier ones that tie
Place(items, j) ==
    1 + Cardinality({l \in DOMAIN items :
            \/ SortsBefore(items[l], items[j])
            \/ l < j /\ ~SortsBefore(items[j], items[l])})

NoSort(items) == items

\* items.sort((a, b) => a - b): a stable sort by the comparator
Sort(items) ==
    [p \in DOMAIN items |-> items[CHOOSE j \in DOMAIN items : Place(items, j) = p]]

SortInPlace(items) == [numbers |-> Sort(items), sorted |-> Sort(items)]

\* const sorted = [...numbers].sort(...): the caller's array and the copy
SpreadSort(items) == [numbers |-> items, sorted |-> Sort(items)]

---------------------------------------------------------------------------
(* The calls the caller makes *)

Specials == {NaN, PosInf, NegInf, Str, Undef}
Fractions == {Frac(1, 2), Frac(-3, 2)}
SmallInts == {Num(m) : m \in -MaxAbs..MaxAbs}
Scalars == Specials \cup SmallInts \cup Fractions

\* integers at and beyond the limit of exact integers
BigInts == {Num(MaxSafe - 1), Num(MaxSafe), Num(MaxSafe + 2)}

IntArgs(maxN) ==
    Specials \cup Fractions \cup BigInts \cup {Num(m) : m \in -MaxAbs..maxN}

\* radicands: invalid, negative, or with a rational root
Radicands ==
    Specials \cup {Num(-m) : m \in 1..MaxAbs} \cup {Frac(-3, 2)}
    \cup {Num(m * m) : m \in 0..MaxAbs} \cup {Frac(1, 4), Frac(9, 4)}

Elems == {Num(m) : m \in -1..2} \cup {NaN, PosInf, Str}

NoArray == [kind |-> "undef", items |-> <<>>]

Arrays ==
    {[kind |-> "array", items |-> s] :
        s \in UNION {[1..n -> Elems] : n \in 0..MaxLen}}

SeqArgs ==
    Arrays \cup {[kind |-> t, items |-> <<>>] : t \in {"undef", "str", "num"}}

Calls ==
    {[op |-> o, args |-> <<a, b>>, numbers |-> NoArray] :
        o \in {"add", "subtract", "multiply", "divide"}, a \in Scalars, b \in Scalars}
    \cup {[op |-> "power", args |-> <<a, b>>, numbers |-> NoArray] :
        a \in Scalars, b \in Specials \cup SmallInts}
    \cup {[op |-> "squareRoot", args |-> <<a>>, numbers |-> NoArray] :
        a \in Radicands}
    \cup {[op |-> "factorial", args |-> <<a>>, numbers |-> NoArray] :
        a \in IntArgs(MaxFactN)}
    \cup {[op |-> "isPrime", args |-> <<a>>, numbers |-> NoArray] :
        a \in IntArgs(MaxPrimeN)}
    \cup {[op |-> "fibonacci", args |-> <<a>>, numbers |-> NoArray] :
        a \in IntArgs(MaxFibN)}
    \cup {[op |-> o, args |-> <<>>, numbers |-> s] :
        o \in {"average", "median"}, s \in SeqArgs}

---------------------------------------------------------------------------
(* The state machine *)

Init ==
    /\ pc = "idle"
    /\ op = "none"
    /\ args = <<>>
    /\ numbers = NoArray
    /\ i = 0
    /\ result = Num(0)
    /\ fibA = Num(0)
    /\ fibB = Num(0)
    /\ acc = Num(0)
    /\ sorted = <<>>
    /\ outcome = None

\* the caller invokes one operation on its arguments
Call ==
    /\ pc = "idle"
    /\ \E c \in Calls :
        /\ op' = c.op
        /\ args' = c.args
        /\ numbers' = c.numbers
    /\ pc' = "ready"
    /\ UNCHANGED <<i, result, fibA, fibB, acc, sorted, outcome>>

\* the call ends with outcome o; its locals go out of scope
Finish(o) ==
    /\ pc' = "done"
    /\ outcome' = o
    /\ i' = 0
    /\ result' = Num(0)
    /\ fibA' = Num(0)
    /\ fibB' = Num(0)
    /\ acc' = Num(0)
    /\ sorted' = <<>>
    /\ UNCHANGED <<op, args>>

Add ==
    /\ pc = "ready" /\ op = "add"
    /\ Finish(add(args[1], args[2]))
    /\ UNCHANGED numbers

Subtract ==
    /\ pc = "ready" /\ op = "subtract"
    /\ Finish(subtract(args[1], args[2]))
    /\ UNCHANGED numbers

Multiply ==
    /\ pc = "ready" /\ op = "multiply"
    /\ Finish(multiply(args[1], args[2]))
    /\ UNCHANGED numbers

Divide ==
    /\ pc = "ready" /\ op = "divide"
    /\ Finish(divide(args[1], args[2]))
    /\ UNCHANGED numbers

Power ==
    /\ pc = "ready" /\ op = "power"
    /\ Finish(power(args[1], args[2]))
    /\ UNCHANGED numbers

SquareRoot ==
    /\ pc = "ready" /\ op = "squareRoot"
    /\ Finish(squareRoot(args[1]))
    /\ UNCHANGED numbers

AverageEnterFirstOnly ==
    /\ pc = "ready" /\ op = "average"
    /\ IF ~IsArray(numbers) \/ Len(numbers.items) = 0
       THEN Finish(Throw("EmptyOrInvalidInput", Undef))
       ELSE LET v == validateNumber(numbers.items[1])
            IN  IF v.st = "err" THEN Finish(v)
                ELSE /\ pc' = "average_reduce"
                     /\ acc' = Num(0)
                     /\ i' = 0
                     /\ UNCHANGED <<op, args, result, fibA, fibB, sorted, outcome>>
    /\ UNCHANGED numbers

\* the array check and numbers.forEach(validateNumber)
AverageEnter ==
    /\ pc = "ready" /\ op = "average"
    /\ IF ~IsArray(numbers) \/ Len(numbers.items) = 0
       THEN Finish(Throw("EmptyOrInvalidInput", Undef))
       ELSE LET v == validateNumbers(numbers.items)
            IN  IF v.st = "err" THEN Finish(v)
                ELSE /\ pc' = "average_reduce"
                     /\ acc' = Num(0)
                     /\ i' = 0
                     /\ UNCHANGED <<op, args, result, fibA, fibB, acc, sorted, outcome>>
    /\ UNCHANGED numbers

\* return sum / numbers.length
AverageReturn(sum, nums) == Return(FDiv(sum, Num(Len(nums.items))))

\* numbers.reduce((acc, curr) => acc + curr, 0), one element a step, and
\* the return after the last
AverageReduce ==
    /\ pc = "average_reduce"
    /\ IF i < Len(numbers.items)
       THEN /\ acc' = FAdd(acc, numbers.items[i + 1])
            /\ i' = i + 1
            /\ UNCHANGED <<pc, op, args, result, fibA, fibB, sorted, outcome>>
       ELSE Finish(AverageReturn(acc, numbers))
    /\ UNCHANGED numbers

\* the array check, numbers.forEach(validateNumber) and the sorted copy
MedianEnter ==
    /\ pc = "ready" /\ op = "median"
    /\ IF ~IsArray(numbers) \/ Len(numbers.items) = 0
       THEN Finish(Throw("EmptyOrInvalidInput", Undef)) /\ UNCHANGED numbers
       ELSE LET v == validateNumbers(numbers.items)
            IN  IF v.st = "err" THEN Finish(v) /\ UNCHANGED numbers
                ELSE /\ pc' = "median_mid"
                     /\ sorted' = SpreadSort(numbers.items).sorted
                     /\ numbers' = [numbers EXCEPT !.items = SpreadSort(numbers.items).numbers]
                     /\ UNCHANGED <<op, args, i, result, fibA, fibB, acc, outcome>>

\* mid = Math.floor(sorted.length / 2) and the return of the middle
MedianReturn ==
    /\ pc = "median_mid"
    /\ LET mid == Len(sorted) \div 2
       IN  IF Len(sorted) % 2 = 0
           THEN \E sum \in {FAdd(sorted[mid], sorted[mid + 1])} :
                    Finish(Return(FDiv(sum, Num(2))))
           ELSE Finish(Return(sorted[mid + 1]))
    /\ UNCHANGED numbers

\* i++ (and i += 2) on a double: the sum is rounded to a representable integer
Step(iv, by) == RoundInt(iv + by)

FactorialCondStrict(iv, number) == iv < number.n

\* i <= number
FactorialCond(iv, number) == iv <= number.n

FactorialEnter ==
    /\ pc = "ready" /\ op = "factorial"
    /\ LET number == args[1]
           v == validateInteger(number)
       IN  IF v.st = "err" THEN Finish(v)
           ELSE IF FLess(number, Num(0))
                THEN Finish(Throw("NegativeFactorial", Undef))
           ELSE IF number = Num(0) \/ number = Num(1) THEN Finish(Return(Num(1)))
           ELSE /\ pc' = "factorial_test"
                /\ result' = Num(1)
                /\ i' = 2
                /\ UNCHANGED <<op, args, fibA, fibB, acc, sorted, outcome>>
    /\ UNCHANGED numbers

FactorialTest ==
    /\ pc = "factorial_test"
    /\ IF FactorialCond(i, args[1])
       THEN /\ pc' = "factorial_body"
            /\ UNCHANGED <<op, args, i, result, fibA, fibB, acc, sorted, outcome>>
       ELSE Finish(Return(result))
    /\ UNCHANGED numbers

FactorialBody ==
    /\ pc = "factorial_body"
    /\ result' = FMul(result, Num(i))
    /\ i' = Step(i, 1)
    /\ pc' = "factorial_test"
    /\ UNCHANGED <<op, args, numbers, fibA, fibB, acc, sorted, outcome>>

IsPrimeCondStrict(iv, number) == iv * iv < number.n

\* i <= Math.sqrt(number), for integers i and number: i * i <= number
IsPrimeCond(iv, number) == iv * iv <= number.n

IsPrimeEnter ==
    /\ pc = "ready" /\ op = "isPrime"
    /\ LET number == args[1]
           v == validateInteger(number)
       IN  IF v.st = "err" THEN Finish(v)
           ELSE IF FLess(number, Num(2)) THEN Finish(Return(Bool(FALSE)))
           ELSE IF number = Num(2) THEN Finish(Return(Bool(TRUE)))
           ELSE IF number.n % 2 = 0 THEN Finish(Return(Bool(FALSE)))
           ELSE /\ pc' = "isPrime_test"
                /\ i' = 3
                /\ UNCHANGED <<op, args, result, fibA, fibB, acc, sorted, outcome>>
    /\ UNCHANGED numbers

IsPrimeTest ==
    /\ pc = "isPrime_test"
    /\ IF IsPrimeCond(i, args[1])
       THEN /\ pc' = "isPrime_body"
            /\ UNCHANGED <<op, args, i, result, fibA, fibB, acc, sorted, outcome>>
       ELSE Finish(Return(Bool(TRUE)))
    /\ UNCHANGED numbers

IsPrimeBody ==
    /\ pc = "isPrime_body"
    /\ IF args[1].n % i = 0
       THEN Finish(Return(Bool(FALSE)))
       ELSE /\ i' = Step(i, 2)
            /\ pc' = "isPrime_test"
            /\ UNCHANGED <<op, args, result, fibA, fibB, acc, sorted, outcome>>
    /\ UNCHANGED numbers

FibonacciCondStrict(iv, n) == iv < n.n

\* i <= n
FibonacciCond(iv, n) == iv <= n.n

FibonacciEnter ==
    /\ pc = "ready" /\ op = "fibonacci"
    /\ LET n == args[1]
           v == validateInteger(n)
       IN  IF v.st = "err" THEN Finish(v)
           ELSE IF FLess(n, Num(0)) THEN Finish(Throw("NegativeIndex", Undef))
           ELSE IF n = Num(0) THEN Finish(Return(Num(0)))
           ELSE IF n = Num(1) THEN Finish(Return(Num(1)))
           ELSE /\ pc' = "fibonacci_test"
                /\ fibA' = Num(0)
                /\ fibB' = Num(1)
                /\ i' = 2
                /\ UNCHANGED <<op, args, result, acc, sorted, outcome>>
    /\ UNCHANGED numbers

FibonacciTest ==
    /\ pc = "fibonacci_test"
    /\ IF FibonacciCond(i, args[1])
       THEN /\ pc' = "fibonacci_body"
            /\ UNCHANGED <<op, args, i, result, fibA, fibB, acc, sorted, outcome>>
       ELSE Finish(Return(fibB))
    /\ UNCHANGED numbers

FibonacciBody ==
    /\ pc = "fibonacci_body"
    /\ LET temp == FAdd(fibA, fibB)
       IN  /\ fibA' = fibB
           /\ fibB' = temp
    /\ i' = Step(i, 1)
    /\ pc' = "fibonacci_test"
    /\ UNCHANGED <<op, args, numbers, result, acc, sorted, outcome>>

\* the steps of the called operation
Run ==
    \/ Add
    \/ Subtract
    \/ Multiply
    \/ Divide
    \/ Power
    \/ SquareRoot
    \/ FactorialEnter
    \/ FactorialTest
    \/ FactorialBody
    \/ IsPrimeEnter
    \/ IsPrimeTest
    \/ IsPrimeBody
    \/ FibonacciEnter
    \/ FibonacciTest
    \/ FibonacciBody
    \/ AverageEnter
    \/ AverageReduce
    \/ MedianEnter
    \/ MedianReturn

Next == Call \/ Run

Spec == Init /\ [][Next]_vars

\* the operations are synchronous and run without suspension: a call that
\* can take a step eventually takes it
LiveSpec == Spec /\ WF_vars(Run)

---------------------------------------------------------------------------
(* Properties *)

Done == pc = "done"

\* a value validateNumber lets through: a number that is not NaN
Accepted(v) == v.k \in {"num", "inf", "ninf"}

Finite(v) == v.k = "num"

\* trial division by every candidate below m
SlowIsPrime(m) == m >= 2 /\ \A c \in 2..(m - 1) : m % c # 0

\* C1: for every integer argument, isPrime returns true exactly when the
\* argument is at least 2 and has no divisor d with 2 <= d < n; it returns
\* false, without throwing, for every integer below 2.
IsPrimeAgreesWithTrialDivision ==
    (Done /\ op = "isPrime" /\ IsInteger(args[1]))
        => outcome = Return(Bool(SlowIsPrime(args[1].n)))

\* isPrime(49) returned false: the square of an odd prime, found composite
\* by the last candidate the loop tests
IsPrimeSquareWitness ==
    Done /\ op = "isPrime" /\ args[1] = Num(49) /\ outcome = Return(Bool(FALSE))

RECURSIVE FibRef(_)
FibRef(m) == IF m < 2 THEN m ELSE FibRef(m - 1) + FibRef(m - 2)

\* C2: fibonacci(n) returns F(n) for every integer 0 <= n <= MaxFibN, and
\* for every integer n < 0 throws NegativeIndex and returns no value.
FibonacciCorrect ==
    (Done /\ op = "fibonacci" /\ IsInteger(args[1]))
        => IF args[1].n < 0
           THEN outcome = Throw("NegativeIndex", Undef)
           ELSE args[1].n <= MaxFibN => outcome = Return(Num(FibRef(args[1].n)))

\* fibonacci(6) went through the loop and returned 8
FibonacciWitness ==
    Done /\ op = "fibonacci" /\ args[1] = Num(6) /\ outcome = Return(Num(8))

RECURSIVE FactRef(_)
FactRef(m) == IF m = 0 THEN 1 ELSE m * FactRef(m - 1)

\* C3: factorial(n) returns 1*2*...*n for every integer 0 <= n <= MaxFactN,
\* throws NegativeFactorial for every integer n < 0 and NotAnInteger for
\* every finite number with a fractional part; a failing call has no value.
FactorialCorrect ==
    (Done /\ op = "factorial" /\ Finite(args[1]))
        => IF ~IsInteger(args[1])
           THEN outcome = Throw("NotAnInteger", args[1])
           ELSE IF args[1].n < 0
           THEN outcome = Throw("NegativeFactorial", Undef)
           ELSE args[1].n <= MaxFactN => outcome = Return(Num(FactRef(args[1].n)))

\* factorial(5) went through the loop and returned 120
FactorialWitness ==
    Done /\ op = "factorial" /\ args[1] = Num(5) /\ outcome = Return(Num(120))

\* the element of rank r (0-based) in the ascending order of the finite
\* numbers items, found by counting and not by sorting
Ranked(items, r) ==
    CHOOSE v \in {items[j] : j \in DOMAIN items} :
        /\ Cardinality({j \in DOMAIN items : FLess(items[j], v)}) <= r
        /\ Cardinality({j \in DOMAIN items : ~FLess(v, items[j])}) > r

\* the finite number halfway between x and y
Midpoint(x, y) == Frac(x.n * y.d + y.n * x.d, 2 * x.d * y.d)

MedianRef(items) ==
    LET len == Len(items)
    IN  IF len % 2 = 1 THEN Ranked(items, len \div 2)
        ELSE Midpoint(Ranked(items, len \div 2 - 1), Ranked(items, len \div 2))

Permuted(items) ==
    {[j \in DOMAIN items |-> items[f[j]]] : f \in Permutations(DOMAIN items)}

\* C4: for every non-empty array of finite numbers, median returns the
\* middle element of the ascending order when the length is odd and the
\* mean of the two middle elements when it is even; every permutation of
\* the array is an argument too and has the same middle, so the result is
\* the same for every permutation.
MedianCorrect ==
    (Done /\ op = "median" /\ IsArray(numbers) /\ Len(numbers.items) > 0
          /\ \A j \in DOMAIN numbers.items : Finite(numbers.items[j]))
        => /\ outcome = Return(MedianRef(numbers.items))
           /\ \A p \in Permuted(numbers.items) : Return(MedianRef(p)) = outcome

\* median([2, -1, 1, 0]) returned 0.5: an unsorted array of even length
MedianWitness ==
    /\ Done /\ op = "median"
    /\ numbers.items = <<Num(2), Num(-1), Num(1), Num(0)>>
    /\ outcome = Return(Frac(1, 2))

\* q is the quotient of the finite numbers a and b # 0
IsQuotient(q, a, b) == Finite(q) /\ q.n * b.n * a.d = a.n * b.d * q.d

\* C5: for numbers a and b that pass validation, divide throws
\* DivisionByZero exactly when b is 0 and otherwise returns a / b; for
\* integers a and b # 0, divide(multiply(a, b), b) returns a.
DivideContract ==
    (Done /\ op = "divide" /\ Accepted(args[1]) /\ Accepted(args[2]))
        => LET a == args[1]
               b == args[2]
           IN  /\ (outcome = Throw("DivisionByZero", Undef)) <=> (b = Num(0))
               /\ b # Num(0) => outcome.st = "ret"
               /\ (Finite(a) /\ Finite(b) /\ b # Num(0))
                      => IsQuotient(outcome.val, a, b)
               /\ (IsInteger(a) /\ IsInteger(b) /\ b # Num(0))
                      => divide(multiply(a, b).val, b) = Return(a)

\* divide(0, 0) threw DivisionByZero
DivideByZeroWitness ==
    /\ Done /\ op = "divide" /\ args = <<Num(0), Num(0)>>
    /\ outcome = Throw("DivisionByZero", Undef)

\* the arguments and elements a call passes to validateNumber
Inputs ==
    IF op \in {"average", "median"}
    THEN {numbers.items[j] : j \in DOMAIN numbers.items}
    ELSE {args[j] : j \in DOMAIN args}

\* C6: add, subtract, multiply, divide, power, squareRoot, average and
\* median throw InvalidNumber whenever an argument or element is infinite.
InfiniteInputRejected ==
    (Done /\ op \in {"add", "subtract", "multiply", "divide", "power",
                     "squareRoot", "average", "median"}
          /\ \E v \in Inputs : v.k \in {"inf", "ninf"})
        => (outcome.st = "err" /\ outcome.err = "InvalidNumber")

\* the sum of the elements, added from the right
RECURSIVE SumRight(_)
SumRight(items) ==
    IF items = <<>> THEN Num(0) ELSE FAdd(Head(items), SumRight(Tail(items)))

\* C7: average throws EmptyOrInvalidInput when its argument is not an array
\* or is empty; otherwise InvalidNumber when an element at any position is
\* not a number or is NaN; otherwise it returns the sum of the elements
\* divided by their count.
AverageContract ==
    (Done /\ op = "average")
        => IF ~IsArray(numbers) \/ Len(numbers.items) = 0
           THEN outcome = Throw("EmptyOrInvalidInput", Undef)
           ELSE IF \E j \in DOMAIN numbers.items : ~Accepted(numbers.items[j])
           THEN outcome.st = "err" /\ outcome.err = "InvalidNumber"
           ELSE /\ outcome.st = "ret"
                /\ FMul(outcome.val, Num(Len(numbers.items))) = SumRight(numbers.items)

\* average([1, 2, NaN]) threw InvalidNumber for its last element
AverageInvalidLastWitness ==
    /\ Done /\ op = "average"
    /\ numbers.items = <<Num(1), Num(2), NaN>>
    /\ outcome = Throw("InvalidNumber", NaN)

\* C8: a call of average or median leaves the caller's array as it was,
\* whether the call returns or throws.
NoMutation ==
    [][(pc # "idle" /\ op \in {"average", "median"}) => numbers' = numbers]_vars

\* median returned for an unsorted array, which is still unsorted
NoMutationWitness ==
    /\ Done /\ op = "median" /\ outcome.st = "ret"
    /\ numbers.items = <<Num(2), Num(-1), Num(1)>>

\* C9: every call ends: it returns a value or throws.
EveryCallEnds == (pc = "ready") ~> Done

\* the index of the first value validateNumber does not let through
FirstRejected(values) ==
    CHOOSE j \in DOMAIN values :
        /\ ~Accepted(values[j])
        /\ \A l \in 1..(j - 1) : Accepted(values[l])

\* C10: a call fails with the first check that fails, validation first:
\* InvalidNumber for the first argument (left to right) that validateNumber
\* does not let through, before DivisionByZero or any other domain error;
\* then NotAnInteger in factorial, isPrime and fibonacci, before
\* NegativeFactorial and NegativeIndex; and average and median decide
\* EmptyOrInvalidInput before they validate an element.
FailurePrecedence ==
    Done =>
        /\ outcome.st \in {"ret", "err"}
        /\ (op \in {"add", "subtract", "multiply", "divide", "power", "squareRoot"}
              /\ \E j \in DOMAIN args : ~Accepted(args[j]))
                => outcome = Throw("InvalidNumber", args[FirstRejected(args)])
        /\ (op \in {"factorial", "isPrime", "fibonacci"})
                => /\ ~Accepted(args[1]) => outcome = Throw("InvalidNumber", args[1])
                   /\ (Accepted(args[1]) /\ ~IsInteger(args[1]))
                          => outcome = Throw("NotAnInteger", args[1])
        /\ (op \in {"average", "median"})
                => IF ~IsArray(numbers) \/ Len(numbers.items) = 0
                   THEN outcome = Throw("EmptyOrInvalidInput", Undef)
                   ELSE (\E j \in DOMAIN numbers.items : ~Accepted(numbers.items[j]))
                          => outcome = Throw("InvalidNumber",
                                 numbers.items[FirstRejected(numbers.items)])

\* divide(NaN, 0) threw InvalidNumber for NaN, not DivisionByZero
DivideNaNByZeroWitness ==
    /\ Done /\ op = "divide" /\ args = <<NaN, Num(0)>>
    /\ outcome = Throw("InvalidNumber", NaN)

=============================================================================
